---- MODULE Spec2Model ----
(***************************************************************************)
(* Valve-lineup engine of worker/petex_client/gap_tools.py: apply_lineup,  *)
(* evaluate_lineup, optimize_lineup_bruteforce and optimize_lineup_greedy  *)
(* driving the solver session of worker/petex_client/server.py.            *)
(*                                                                         *)
(* One step of the state machine is one call on the solver session         *)
(* (do_cmd / get_value) together with the Python code that runs up to the  *)
(* next call.  Every call either succeeds or raises PetexException.        *)
(*                                                                         *)
(* The graph functions of the same file follow: build_directed_graph,      *)
(* find_trunks_and_branches and find_paths_from_well_to_sep, one step per  *)
(* dfs call or loop iteration, and the solver scans get_uid_maps and       *)
(* get_all_edges_with_uids behind extract_topology, one step per read.     *)
(***************************************************************************)
EXTENDS Integers, Sequences, FiniteSets, TLC

\* ---------------------------------------------------------------- bounds
\* Largest oil weight of one pipe in the solver's scoring function.
MaxW == 1
\* Number of separators of the solver's model (SEP.COUNT).
MaxSep == 2

\* ------------------------------------------------------- program constants
TWO_PORT_TYPES == {"PIPE", "INLCHK", "INLGEN"}

\* best_score = -1 (optimize_lineup_bruteforce and optimize_lineup_greedy).
NoBest == -1

\* Python None in a slot that holds a candidate's UID.
None == "None"

\* ------------------------------------------------------------- lineups
\* A lineup (chosen_branches) is a dict branch point -> chosen candidate; it
\* is modelled as a function whose DOMAIN is the set of keys of the dict and
\* whose values are the UIDs of the chosen candidates (the code compares
\* chosen_branches[bp]["uid"] only).
EmptyLineup == [b \in {} |-> None]

\* best_lineup = None
NoLineup == [b \in {"#none"} |-> None]

\* trial_choice before its first assignment (an unbound local).
UnboundLineup == [b \in {"#unbound"} |-> None]

\* d[k] = v on a copy of d
Put(d, k, v) == [x \in (DOMAIN d) \cup {k} |-> IF x = k THEN v ELSE d[x]]

\* ------------------------------------------------------------ snapshots
\* A topology snapshot as extract_topology builds it: "trunks" is a list of
\* {uid, type, initial_masked}; "branches" maps a branch point to the list of
\* its candidates {uid, type}.  Python dicts keep insertion order, so the
\* branch points are kept as the sequence bps beside the map.
Trunk(u, t, m) == [uid |-> u, type |-> t, initial_masked |-> m]
Pipe(u, t) == [uid |-> u, type |-> t]

\* The scenario of the specification: W1 -P1-> J1, J1 -P2-> SEP1, J1 -P3-> SEP2.
TopoScenario ==
    [trunks   |-> << Trunk("P1", "PIPE", FALSE) >>,
     bps      |-> << "J1" >>,
     branches |-> [b \in {"J1"} |-> << Pipe("P2", "PIPE"), Pipe("P3", "PIPE") >>]]

\* Two branch points with candidate lists of sizes 2 and 3.
TopoTwoThree ==
    [trunks   |-> << Trunk("P1", "PIPE", TRUE) >>,
     bps      |-> << "J1", "J2" >>,
     branches |-> [b \in {"J1", "J2"} |->
                     IF b = "J1"
                     THEN << Pipe("P2", "PIPE"), Pipe("P3", "INLCHK") >>
                     ELSE << Pipe("P4", "PIPE"), Pipe("P5", "PIPE"),
                             Pipe("P6", "INLGEN") >>]]

\* A snapshot whose catalog lookup failed for some equipment: extract_topology
\* records uid_type.get(uid, "?"), and get_uid_maps records "UNKNOWN" for an
\* empty Type.
TopoMixed ==
    [trunks   |-> << Trunk("P1", "PIPE", FALSE), Trunk("P8", "INLCHK", TRUE),
                     Trunk("P7", "?", FALSE) >>,
     bps      |-> << "J1" >>,
     branches |-> [b \in {"J1"} |-> << Pipe("P2", "PIPE"), Pipe("P3", "UNKNOWN"),
                                       Pipe("P4", "INLGEN") >>]]

\* The same with one trunk, small enough for the optimizers.
TopoUntyped ==
    [trunks   |-> << Trunk("P1", "PIPE", FALSE) >>,
     bps      |-> << "J1" >>,
     branches |-> [b \in {"J1"} |-> << Pipe("P2", "?"), Pipe("P3", "PIPE"),
                                       Pipe("P4", "PIPE") >>]]

\* A network without branch points: everything is a trunk.
TopoTrunksOnly ==
    [trunks   |-> << Trunk("P1", "PIPE", FALSE), Trunk("P2", "PIPE", TRUE) >>,
     bps      |-> << >>,
     branches |-> [b \in {} |-> << >>]]

Range(s) == {s[i] : i \in DOMAIN s}

TrunkUids(t) == {x.uid : x \in Range(t.trunks)}
CandUids(t) == UNION {{x.uid : x \in Range(t.branches[b])} : b \in Range(t.bps)}
Equip(t) == TrunkUids(t) \cup CandUids(t)

\* ------------------------------------------------------- apply_lineup
NoCmd == "NONE"

\* The command apply_lineup issues for one trunk: lines 207-220.
TrunkCmdLockIgnored(trunk, force, locked) ==
    IF trunk.type \notin TWO_PORT_TYPES THEN NoCmd
    ELSE IF force THEN "UNMASK"
    ELSE IF trunk.uid \in locked THEN "MASK"
    ELSE IF trunk.initial_masked THEN "MASK" ELSE "UNMASK"

TrunkCmdRestoreUnmasks(trunk, force, locked) ==
    IF trunk.type \notin TWO_PORT_TYPES THEN NoCmd
    ELSE IF trunk.uid \in locked THEN "MASK"
    ELSE "UNMASK"

TrunkCmd(trunk, force, locked) ==
    IF trunk.type \notin TWO_PORT_TYPES THEN NoCmd
    ELSE IF trunk.uid \in locked THEN "MASK"
    ELSE IF force THEN "UNMASK"
    ELSE IF trunk.initial_masked THEN "MASK" ELSE "UNMASK"

\* The command apply_lineup issues for one candidate of branch point bp:
\* lines 225-229.
BranchCmdUndecidedUntouched(bp, node, lineup) ==
    IF node.type \notin TWO_PORT_TYPES THEN NoCmd
    ELSE IF bp \notin DOMAIN lineup THEN NoCmd
    ELSE IF node.uid = lineup[bp] THEN "UNMASK" ELSE "MASK"

BranchCmd(bp, node, lineup) ==
    IF node.type \notin TWO_PORT_TYPES THEN NoCmd
    ELSE IF bp \in DOMAIN lineup /\ node.uid = lineup[bp] THEN "UNMASK"
    ELSE "MASK"

Cmd(v, u) == [verb |-> v, uid |-> u]
IsCmd(c) == c.verb # NoCmd

\* for trunk in topology["trunks"]: lines 206-220.
TrunkCmds(t, force, locked) ==
    SelectSeq([i \in DOMAIN t.trunks |->
                  Cmd(TrunkCmd(t.trunks[i], force, locked), t.trunks[i].uid)],
              IsCmd)

\* for node in pipes: lines 224-229.
PipeCmds(bp, pipes, lineup) ==
    SelectSeq([i \in DOMAIN pipes |->
                  Cmd(BranchCmd(bp, pipes[i], lineup), pipes[i].uid)],
              IsCmd)

\* for bp, pipes in topology["branches"].items(): lines 223-229.
RECURSIVE BranchCmds(_, _, _)
BranchCmds(t, bps, lineup) ==
    IF bps = << >> THEN << >>
    ELSE PipeCmds(Head(bps), t.branches[Head(bps)], lineup)
         \o BranchCmds(t, Tail(bps), lineup)

\* Every do_cmd of one apply_lineup call, in the order of issue.
ApplyCmdsBranchesFirst(t, lineup, force, locked) ==
    BranchCmds(t, t.bps, lineup) \o TrunkCmds(t, force, locked)
ApplyCmds(t, lineup, force, locked) ==
    TrunkCmds(t, force, locked) \o BranchCmds(t, t.bps, lineup)

\* The solver's mask state after a MASK() / UNMASK() command.
Execute(m, c) == [m EXCEPT ![c.uid] = (c.verb = "MASK")]

RECURSIVE ExecuteAll(_, _)
ExecuteAll(m, cs) ==
    IF cs = << >> THEN m ELSE ExecuteAll(Execute(m, Head(cs)), Tail(cs))

\* ------------------------------------------------- the solver's model
\* The solver is a black box behind do_cmd / get_value.  Its scoring function
\* is a deterministic function of the mask state, drawn in Init from a
\* bounded family: every open candidate adds its weight w to the separator it
\* feeds (the j-th candidate of a branch point feeds separator (j-1) mod
\* nsep), an optional synergy adds MaxW to separator 0 when the second
\* candidate of the first branch point and the first candidate of the second
\* branch point are both open, and a closed trunk cuts all production.
RECURSIVE SumSet(_, _)
SumSet(S, f) ==
    IF S = {} THEN 0
    ELSE LET x == CHOOSE y \in S : TRUE IN f[x] + SumSet(S \ {x}, f)

RECURSIVE SumSeq(_)
SumSeq(s) == IF s = << >> THEN 0 ELSE Head(s) + SumSeq(Tail(s))

Feeds(t, n, k) ==
    UNION {{t.branches[b][j].uid : j \in {x \in DOMAIN t.branches[b] : (x - 1) % n = k}}
           : b \in Range(t.bps)}

SynergyOpen(t, m) ==
    /\ Len(t.bps) >= 2
    /\ Len(t.branches[t.bps[1]]) >= 2
    /\ ~m[t.branches[t.bps[1]][2].uid]
    /\ ~m[t.branches[t.bps[2]][1].uid]

\* SolverResults[0].OilRate of separator k (0-based) for mask state m.
OilRate(t, m, wt, syn, n, k) ==
    IF \E x \in TrunkUids(t) : m[x] THEN 0
    ELSE SumSet({c \in Feeds(t, n, k) : ~m[c]}, wt)
         + (IF k = 0 /\ syn /\ SynergyOpen(t, m) THEN MaxW ELSE 0)

\* What GAP.SOLVENETWORK() leaves in the separators' solver results.
Solve(t, m, wt, syn, n) == [k \in 1..n |-> OilRate(t, m, wt, syn, n, k - 1)]

\* ------------------------------------------------ evaluate_lineup
\* float(oil or 0): line 244.  An empty reading is the value None / "".
\* get_value returns the reading as the solver gives it.
Value(n) == [empty |-> FALSE, num |-> n]
EmptyValue == [empty |-> TRUE, num |-> 0]
OilTerm(oil) == IF oil.empty THEN 0 ELSE oil.num

\* for i in range(sep_count): line 242.
MoreSepsOffByOne(k, count) == k < count - 1
MoreSeps(k, count) == k < count

\* ------------------------------------------------------ the optimizers
\* itertools.product(*choices) over the candidate lists of the branch points
\* bps, as the list of the lineups {branch_points[i]: combo[i]}: lines
\* 254-261.  The last branch point varies fastest.
RECURSIVE Product(_, _)
Product(t, bps) ==
    IF bps = << >> THEN << EmptyLineup >>
    ELSE LET rest == Product(t, Tail(bps))
             bp   == Head(bps)
             cs   == t.branches[bp]
         IN  [k \in 1..(Len(cs) * Len(rest)) |->
                Put(rest[((k - 1) % Len(rest)) + 1], bp,
                    cs[((k - 1) \div Len(rest)) + 1].uid)]

CombosDropLast(t) ==
    LET p == Product(t, t.bps) IN SubSeq(p, 1, Len(p) - 1)
Combos(t) == Product(t, t.bps)

\* if score > best_score: lines 264 and 295.
BetterOrEqual(score, best) == score >= best
Better(score, best) == score > best

\* for pipe in topology["branches"][bp]: line 289; another candidate follows
\* the pipe_idx-th one.
MorePipesSkipLast(k, pipes) == k < Len(pipes) - 1
MorePipes(k, pipes) == k < Len(pipes)

\* The lineup of the final apply_lineup of optimize_lineup_greedy: line 303
\* passes trial_choice.
FinalLineup(chosen, trial) == trial

\* Where an exception raised by a solver call at position `at` of operation o
\* goes: no function of gap_tools.py has a try/except, so it leaves the
\* operation and reaches the caller.
OnErrorTrialCaught(o, at) ==
    IF o \in {"brute", "greedy"} /\ at = "apply" THEN "solve"
    ELSE IF o \in {"brute", "greedy"} /\ at = "solve" THEN "count"
    ELSE "raised"
OnErrorSolveIgnored(o, at) == IF at = "solve" THEN "count" ELSE "raised"
OnErrorReadIgnored(o, at) == IF at = "read" THEN "read" ELSE "raised"
OnError(o, at) == "raised"

\* ---------------------------------------------------------------- state
VARIABLES
    op,                   \* the operation called
    topology,             \* its snapshot argument
    force_unmask_trunks,  \* its trunk policy (TRUE: FORCE_OPEN)
    locked_trunks,        \* its locked trunk UIDs
    masked,               \* solver: mask state of every equipment
    results,              \* solver: oil rate of every separator, last solve
    w, synergy, nsep,     \* solver: scoring function and separator count
    pc,                   \* position of the running operation
    lineup,               \* apply_lineup: its chosen_branches argument
    ai,                   \* apply_lineup: commands issued by this call
    cmds,                 \* apply_lineup: the commands of this call, in order
    sep_count, sep_i,     \* evaluate_lineup: sep_count and loop index i
    total_oil,            \* evaluate_lineup: total_oil
    evlog,                \* evaluate_lineup: solver calls of this call
    combo,                \* brute force: index of the current combination
    chosen_branches,      \* optimizers: chosen_branches
    best_score,           \* optimizers: best_score
    best_lineup,          \* brute force: best_lineup
    bp_idx, pipe_idx,     \* greedy: position in the two nested loops
    trial_choice,         \* greedy: trial_choice
    best_choice,          \* greedy: best_choice (a candidate's UID)
    phase,                \* greedy: "trial" or "final"
    ret,                  \* the value returned to the caller
    trials,               \* history: every (lineup, score) evaluated
    solved_for,           \* history: the lineup under each SOLVENETWORK
    err_at,               \* history: position of the first failed call
    masked0,              \* history: the mask state when the operation began
    entry_mask,           \* history: the mask state when the current call began
    empties,              \* history: separators whose reading was empty
    edges,                \* graph: the edge set, in dict insertion order
    uid_type,             \* graph: the catalog, in dict insertion order
    visited,              \* find_trunks_and_branches: visited
    trunks,               \* find_trunks_and_branches: trunks
    branches,             \* find_trunks_and_branches: branches
    stack,                \* the frames of the dfs calls in progress
    widx,                 \* position of the loop over wells
    routes,               \* find_paths_from_well_to_sep: results
    etype_i,              \* get_all_edges_with_uids: position in equip_types
    scan_n, scan_i,       \* the scans: the count read and the loop index i
    row,                  \* the scans: the values read for item i so far
    missing,              \* history: the reads that returned an empty value
    first,                \* history: the classification of an earlier call
    data,                 \* save_topology_json: its data argument
    file,                 \* the text of the JSON file, token by token
    loaded,               \* load_topology_json: the value it returned
    interfered,           \* history: another driver has issued a command
    solved_mask           \* history: the mask state at the last SOLVENETWORK

inputs == << op, topology, force_unmask_trunks, locked_trunks >>
oracle == << w, synergy, nsep >>
applyv == << lineup, ai, cmds >>
evalv  == << sep_count, sep_i, total_oil, evlog >>
optv   == << combo, chosen_branches, best_score, best_lineup, bp_idx, pipe_idx,
             trial_choice, best_choice, phase >>
histv  == << trials, solved_for, err_at, empties, masked0, entry_mask, interfered, solved_mask >>
scanv  == << etype_i, scan_n, scan_i, row, missing >>
jsonv  == << data, file, loaded >>
graphv == << edges, uid_type, visited, trunks, branches, stack, widx, routes,
             scanv, first, jsonv >>
enginev == << topology, force_unmask_trunks, locked_trunks, oracle, masked,
             results, applyv, evalv, optv, ret, histv >>
vars   == << inputs, oracle, masked, results, pc, applyv, evalv, optv, ret,
             histv, graphv >>

NoRet == [returned |-> FALSE, lineup |-> NoLineup, score |-> 0]
Ret(l, s) == [returned |-> TRUE, lineup |-> l, score |-> s]

\* ----------------------------------------------------------------- Init
\* Lineups a caller may pass to apply_lineup: any subset of the branch
\* points, each with one of its candidates or a UID that is none of them.
Foreign == "PX"
Lineups(t) ==
    UNION {{f \in [S -> CandUids(t) \cup {Foreign}] :
               \A b \in S : f[b] \in {x.uid : x \in Range(t.branches[b])} \cup {Foreign}}
           : S \in SUBSET Range(t.bps)}

UniformMasks(t) == {[e \in Equip(t) |-> b] : b \in BOOLEAN}

\* No classification has returned yet.
NoClassification == [returned |-> FALSE, trunks |-> {}, branches |-> [n \in {} |-> << >>]]

\* A Python value as json sees it: a tagged tree.  None, a string, a
\* boolean, a list of values, or a dict as its keys in insertion order
\* beside its values.
JsonNone == [kind |-> "null"]
JsonStr(text) == [kind |-> "str", text |-> text]
JsonBool(b) == [kind |-> "bool", b |-> b]
JsonList(items) == [kind |-> "list", items |-> items]
JsonDict(keys, vals) == [kind |-> "dict", keys |-> keys, vals |-> vals]

\* No snapshot is being saved or loaded.
JsonIdle == data = JsonNone /\ file = << >> /\ loaded = JsonNone

\* No scan of the solver's equipment is running.
ScanIdle ==
    /\ etype_i = 0 /\ scan_n = 0 /\ scan_i = 0
    /\ row = [uid |-> ""] /\ missing = {}
    /\ first = NoClassification

\* No graph function is running.
GraphIdle ==
    /\ edges = << >> /\ uid_type = << >>
    /\ visited = {} /\ trunks = {} /\ branches = [n \in {} |-> << >>]
    /\ stack = << >> /\ widx = 0 /\ routes = [n \in {} |-> << >>]
    /\ ScanIdle

Locals ==
    /\ pc = "start"
    /\ ai = 0 /\ cmds = << >>
    /\ sep_count = 0 /\ sep_i = 0 /\ total_oil = 0 /\ evlog = << >>
    /\ combo = 0 /\ chosen_branches = EmptyLineup
    /\ best_score = NoBest /\ best_lineup = NoLineup
    /\ bp_idx = 0 /\ pipe_idx = 0
    /\ trial_choice = UnboundLineup /\ best_choice = None /\ phase = "trial"
    /\ ret = NoRet
    /\ trials = << >> /\ solved_for = << >> /\ err_at = "none" /\ empties = {}
    /\ masked0 = masked /\ entry_mask = masked
    /\ interfered = FALSE /\ solved_mask = masked

InitApply ==
    /\ op = "apply"
    /\ topology \in {TopoScenario, TopoMixed, TopoTwoThree}
    /\ force_unmask_trunks \in BOOLEAN
    /\ locked_trunks \in SUBSET TrunkUids(topology)
    /\ masked \in [Equip(topology) -> BOOLEAN]
    /\ lineup \in Lineups(topology)
    /\ w = [c \in CandUids(topology) |-> 0] /\ synergy = FALSE /\ nsep = MaxSep
    /\ results = [k \in 1..nsep |-> 0]
    /\ Locals /\ GraphIdle /\ JsonIdle

InitEvaluate ==
    /\ op = "evaluate"
    /\ topology \in {TopoScenario, TopoTwoThree}
    /\ force_unmask_trunks = TRUE /\ locked_trunks = {}
    /\ masked \in IF topology = TopoScenario THEN [Equip(topology) -> BOOLEAN]
                  ELSE UniformMasks(topology)
    /\ lineup = EmptyLineup
    /\ w \in [CandUids(topology) -> 0..MaxW] /\ synergy = FALSE
    /\ nsep \in 0..MaxSep
    /\ results = [k \in 1..nsep |-> 0]
    /\ Locals /\ GraphIdle /\ JsonIdle

InitOptimizer ==
    /\ topology \in {TopoScenario, TopoTwoThree, TopoUntyped, TopoTrunksOnly}
    /\ \/ force_unmask_trunks = TRUE /\ locked_trunks = {}
       \/ force_unmask_trunks = FALSE /\ locked_trunks = {}
       \/ force_unmask_trunks = TRUE /\ locked_trunks = {"P1"}
    /\ masked \in UniformMasks(topology)
    /\ lineup = EmptyLineup
    /\ w \in [CandUids(topology) -> 0..MaxW] /\ synergy \in BOOLEAN
    /\ nsep = MaxSep
    /\ results = [k \in 1..nsep |-> 0]
    /\ Locals /\ GraphIdle /\ JsonIdle

InitBruteforce == op = "brute" /\ InitOptimizer
InitGreedy == op = "greedy" /\ InitOptimizer

Init == InitApply \/ InitEvaluate \/ InitBruteforce \/ InitGreedy

\* -------------------------------------------------------------- actions
\* The snapshot after apply_lineup has read a trunk or candidate record: the
\* loops of lines 206-229 read "uid", "type" and "initial_masked" and assign
\* to no key of topology or of its records.
SnapshotReadMarked(t) ==
    [t EXCEPT !.trunks = [i \in DOMAIN t.trunks |->
                             [t.trunks[i] EXCEPT !.initial_masked = TRUE]]]
SnapshotRead(t) == t

\* The commands of the apply_lineup call in progress.
CurCmds == ApplyCmds(topology, lineup, force_unmask_trunks, locked_trunks)

\* Enter apply_lineup(srv, topology, l, force_unmask_trunks, locked_trunks).
EnterApply(l) == lineup' = l /\ ai' = 0 /\ cmds' = << >> /\ pc' = "apply"

\* A solver call raises PetexException (do_cmd: err > 0, get_value: err > 0).
Raise ==
    /\ pc' = OnError(op, pc)
    /\ err_at' = IF err_at = "none" THEN pc ELSE err_at

\* The caller calls apply_lineup.
CallApply ==
    /\ pc = "start" /\ op = "apply"
    /\ EnterApply(lineup)
    /\ UNCHANGED << graphv, inputs, oracle, masked, results, evalv, optv, ret, histv >>

\* The caller calls evaluate_lineup.
CallEvaluate ==
    /\ pc = "start" /\ op = "evaluate"
    /\ pc' = "solve"
    /\ UNCHANGED << graphv, inputs, oracle, masked, results, applyv, evalv, optv, ret,
                    histv >>

\* optimize_lineup_bruteforce up to its first apply_lineup: lines 254-262.
CallBruteforce ==
    /\ pc = "start" /\ op = "brute"
    /\ best_score' = NoBest /\ best_lineup' = NoLineup
    /\ IF Combos(topology) = << >>
       THEN /\ pc' = "done" /\ ret' = Ret(NoLineup, NoBest)
            /\ UNCHANGED << applyv, combo, chosen_branches >>
       ELSE /\ combo' = 1
            /\ chosen_branches' = Combos(topology)[1]
            /\ EnterApply(Combos(topology)[1])
            /\ ret' = ret
    /\ UNCHANGED << graphv, inputs, oracle, masked, results, evalv, bp_idx, pipe_idx,
                    trial_choice, best_choice, phase, histv >>

\* optimize_lineup_greedy up to its first apply_lineup: lines 280-292.  With
\* no branch point the loop body never runs and line 303 reads trial_choice
\* unbound (UnboundLocalError).
CallGreedy ==
    /\ pc = "start" /\ op = "greedy"
    /\ chosen_branches' = EmptyLineup
    /\ IF topology.bps = << >>
       THEN /\ phase' = "final"
            /\ IF FinalLineup(EmptyLineup, trial_choice) = UnboundLineup
               THEN /\ pc' = "raised" /\ err_at' = "unbound"
                    /\ UNCHANGED applyv
               ELSE /\ EnterApply(FinalLineup(EmptyLineup, trial_choice))
                    /\ err_at' = err_at
            /\ UNCHANGED << bp_idx, pipe_idx, trial_choice, best_score,
                            best_choice >>
       ELSE /\ bp_idx' = 1 /\ pipe_idx' = 1
            /\ best_score' = NoBest /\ best_choice' = None
            /\ trial_choice' = Put(EmptyLineup, topology.bps[1],
                                   topology.branches[topology.bps[1]][1].uid)
            /\ EnterApply(trial_choice')
            /\ UNCHANGED << phase, err_at >>
    /\ UNCHANGED << graphv, inputs, oracle, masked, results, evalv, combo, best_lineup,
                    ret, trials, solved_for, empties, masked0, entry_mask, interfered, solved_mask >>

\* srv.do_cmd(...MASK() / UNMASK()) succeeds.
ApplyCmdOk ==
    /\ pc = "apply" /\ ai < Len(CurCmds)
    /\ masked' = Execute(masked, CurCmds[ai + 1])
    /\ cmds' = Append(cmds, CurCmds[ai + 1])
    /\ ai' = ai + 1
    /\ topology' = SnapshotRead(topology)
    /\ UNCHANGED << graphv, op, force_unmask_trunks, locked_trunks, oracle,
                    results, pc, lineup, evalv, optv, ret, histv >>

\* srv.do_cmd(...MASK() / UNMASK()) raises.
ApplyCmdFail ==
    /\ pc = "apply" /\ ai < Len(CurCmds)
    /\ Raise
    /\ UNCHANGED << graphv, inputs, oracle, masked, results, applyv, evalv, optv, ret,
                    trials, solved_for, empties, masked0, entry_mask, interfered, solved_mask >>

\* apply_lineup returns; the optimizers go on to evaluate_lineup.
ApplyReturn ==
    /\ pc = "apply" /\ ai = Len(CurCmds)
    /\ pc' = IF op = "apply" THEN "done" ELSE "solve"
    /\ ret' = IF op = "apply" THEN Ret(NoLineup, 0) ELSE ret
    /\ UNCHANGED << graphv, inputs, oracle, masked, results, applyv, evalv, optv, histv >>

\* srv.do_cmd("GAP.SOLVENETWORK()") succeeds: line 239.
SolveOk ==
    /\ pc = "solve"
    /\ results' = Solve(topology, masked, w, synergy, nsep)
    /\ evlog' = << [call |-> "SOLVENETWORK", arg |-> 0] >>
    /\ solved_for' = Append(solved_for,
                            [lineup |-> lineup, complete |-> ai = Len(CurCmds)])
    /\ solved_mask' = masked
    /\ pc' = "count"
    /\ UNCHANGED << graphv, inputs, oracle, masked, applyv, sep_count, sep_i, total_oil,
                    optv, ret, trials, err_at, empties,
                    masked0, entry_mask, interfered >>

\* srv.do_cmd("GAP.SOLVENETWORK()") raises.
SolveFail ==
    /\ pc = "solve"
    /\ Raise
    /\ evlog' = << >>
    /\ UNCHANGED << graphv, inputs, oracle, masked, results, applyv, sep_count, sep_i,
                    total_oil, optv, ret, trials, solved_for, empties, masked0, entry_mask, interfered, solved_mask >>

\* sep_count = int(srv.get_value("...SEP.COUNT")): lines 240-241.
CountOk ==
    /\ pc = "count"
    /\ sep_count' = nsep /\ sep_i' = 0 /\ total_oil' = 0
    /\ evlog' = Append(evlog, [call |-> "SEP.COUNT", arg |-> 0])
    /\ pc' = "read"
    /\ UNCHANGED << graphv, inputs, oracle, masked, results, applyv, optv, ret, histv >>

\* The read of SEP.COUNT raises (an error code, or int() of no number).
CountFail ==
    /\ pc = "count"
    /\ Raise
    /\ UNCHANGED << graphv, inputs, oracle, masked, results, applyv, evalv, optv, ret,
                    trials, solved_for, empties, masked0, entry_mask, interfered, solved_mask >>

\* oil = srv.get_value(...SEP[i]...OilRate); total_oil += float(oil or 0):
\* lines 242-244.
ReadOk ==
    /\ pc = "read" /\ MoreSeps(sep_i, sep_count)
    /\ total_oil' = total_oil + OilTerm(Value(results[sep_i + 1]))
    /\ evlog' = Append(evlog, [call |-> "OilRate", arg |-> sep_i])
    /\ sep_i' = sep_i + 1
    /\ UNCHANGED << graphv, inputs, oracle, masked, results, pc, applyv, sep_count,
                    optv, ret, histv >>

\* The same read when the solver returns no value and no error code.
ReadEmpty ==
    /\ pc = "read" /\ MoreSeps(sep_i, sep_count)
    /\ total_oil' = total_oil + OilTerm(EmptyValue)
    /\ evlog' = Append(evlog, [call |-> "OilRate", arg |-> sep_i])
    /\ empties' = empties \cup {sep_i}
    /\ sep_i' = sep_i + 1
    /\ UNCHANGED << graphv, inputs, oracle, masked, results, pc, applyv, sep_count,
                    optv, ret, trials, solved_for, err_at, masked0, entry_mask, interfered, solved_mask >>

\* The same read when get_value raises (err > 0).
ReadFail ==
    /\ pc = "read" /\ MoreSeps(sep_i, sep_count)
    /\ Raise
    /\ UNCHANGED << graphv, inputs, oracle, masked, results, applyv, evalv, optv, ret,
                    trials, solved_for, empties, masked0, entry_mask, interfered, solved_mask >>

\* evaluate_lineup returns total_oil to its caller: line 245.
EvaluateReturn ==
    /\ pc = "read" /\ ~MoreSeps(sep_i, sep_count) /\ op = "evaluate"
    /\ ret' = Ret(NoLineup, total_oil)
    /\ pc' = "done"
    /\ UNCHANGED << graphv, inputs, oracle, masked, results, applyv, evalv, optv, histv >>

\* optimize_lineup_bruteforce after score = evaluate_lineup(srv): lines
\* 263-271, then the next combination (lines 260-262) or the return.
BruteScored ==
    /\ pc = "read" /\ ~MoreSeps(sep_i, sep_count) /\ op = "brute"
    /\ trials' = Append(trials, [lineup |-> chosen_branches, score |-> total_oil])
    /\ best_score' = IF Better(total_oil, best_score) THEN total_oil ELSE best_score
    /\ best_lineup' = IF Better(total_oil, best_score) THEN chosen_branches
                      ELSE best_lineup
    /\ IF combo < Len(Combos(topology))
       THEN /\ combo' = combo + 1
            /\ chosen_branches' = Combos(topology)[combo + 1]
            /\ EnterApply(chosen_branches')
            /\ ret' = ret
       ELSE /\ ret' = Ret(best_lineup', best_score')
            /\ pc' = "done"
            /\ UNCHANGED << applyv, combo, chosen_branches >>
    /\ UNCHANGED << graphv, inputs, oracle, masked, results, evalv, bp_idx, pipe_idx,
                    trial_choice, best_choice, phase, solved_for, err_at,
                    empties, masked0, entry_mask, interfered, solved_mask >>

\* optimize_lineup_greedy after score = evaluate_lineup(srv) of a trial: lines
\* 293-299, then the next candidate (289-292), the next branch point
\* (285-292) or the final apply_lineup (303).
GreedyScored ==
    /\ pc = "read" /\ ~MoreSeps(sep_i, sep_count) /\ op = "greedy"
    /\ phase = "trial"
    /\ trials' = Append(trials, [lineup |-> trial_choice, score |-> total_oil])
    /\ LET bp     == topology.bps[bp_idx]
           pipes  == topology.branches[bp]
           better == Better(total_oil, best_score)
           nscore == IF better THEN total_oil ELSE best_score
           nchoice == IF better THEN pipes[pipe_idx].uid ELSE best_choice
           fixed  == Put(chosen_branches, bp, nchoice)
       IN  IF MorePipes(pipe_idx, pipes)
           THEN /\ pipe_idx' = pipe_idx + 1
                /\ best_score' = nscore /\ best_choice' = nchoice
                /\ trial_choice' = Put(chosen_branches, bp, pipes[pipe_idx + 1].uid)
                /\ EnterApply(trial_choice')
                /\ UNCHANGED << chosen_branches, bp_idx, phase >>
           ELSE IF bp_idx < Len(topology.bps)
           THEN /\ chosen_branches' = fixed
                /\ bp_idx' = bp_idx + 1 /\ pipe_idx' = 1
                /\ best_score' = NoBest /\ best_choice' = None
                /\ trial_choice' =
                       Put(fixed, topology.bps[bp_idx + 1],
                           topology.branches[topology.bps[bp_idx + 1]][1].uid)
                /\ EnterApply(trial_choice')
                /\ UNCHANGED phase
           ELSE /\ chosen_branches' = fixed
                /\ best_score' = nscore /\ best_choice' = nchoice
                /\ phase' = "final"
                /\ EnterApply(FinalLineup(fixed, trial_choice))
                /\ UNCHANGED << bp_idx, pipe_idx, trial_choice >>
    /\ UNCHANGED << graphv, inputs, oracle, masked, results, evalv, combo, best_lineup,
                    ret, solved_for, err_at, empties, masked0, entry_mask, interfered, solved_mask >>

\* optimize_lineup_greedy after final_score = evaluate_lineup(srv): lines
\* 304-311.
GreedyReturn ==
    /\ pc = "read" /\ ~MoreSeps(sep_i, sep_count) /\ op = "greedy"
    /\ phase = "final"
    /\ trials' = Append(trials, [lineup |-> lineup, score |-> total_oil])
    /\ ret' = Ret(chosen_branches, total_oil)
    /\ pc' = "done"
    /\ UNCHANGED << graphv, inputs, oracle, masked, results, applyv, evalv, optv,
                    solved_for, err_at, empties, masked0, entry_mask, interfered, solved_mask >>

\* ------------------------------------------------------- specifications
ApplySteps == ApplyCmdOk \/ ApplyCmdFail \/ ApplyReturn
EvalSteps == SolveOk \/ SolveFail \/ CountOk \/ CountFail \/ ReadOk \/ ReadFail

NextApply == CallApply \/ ApplySteps
NextEvaluate == CallEvaluate \/ EvalSteps \/ ReadEmpty \/ EvaluateReturn
NextBruteforce == CallBruteforce \/ ApplySteps \/ EvalSteps \/ BruteScored
NextGreedy == CallGreedy \/ ApplySteps \/ EvalSteps \/ GreedyScored \/ GreedyReturn

Next == NextApply \/ NextEvaluate \/ NextBruteforce \/ NextGreedy

\* Every operation, each on its own inputs.
Spec == Init /\ [][Next]_vars
\* One call of apply_lineup.
SpecApply == InitApply /\ [][NextApply]_vars
\* One call of evaluate_lineup.
SpecEvaluate == InitEvaluate /\ [][NextEvaluate]_vars
\* One call of optimize_lineup_bruteforce.
SpecBruteforce == InitBruteforce /\ [][NextBruteforce]_vars
\* One call of optimize_lineup_greedy.
SpecGreedy == InitGreedy /\ [][NextGreedy]_vars

\* ------------------------------------------------------------ properties
\* The objective of lineup l: the score evaluate_lineup returns once
\* apply_lineup has applied l under the call's policy and locked set.
\* Equipment that apply_lineup never commands keeps its mask state.
Objective(l) ==
    SumSeq(Solve(topology,
                 ExecuteAll(masked, ApplyCmds(topology, l, force_unmask_trunks,
                                              locked_trunks)),
                 w, synergy, nsep))

SolverError == err_at \in {"apply", "solve", "count", "read"}

CmdsFor(u) == SelectSeq(cmds, LAMBDA c : c.uid = u)

CandidatesOf(bp) == Range(topology.branches[bp])

\* C1: optimize_lineup_greedy performs its final apply+evaluate with the
\* lineup it returns, so the returned score is the objective of the returned
\* lineup.
C1_FinalScoreOfReturnedLineup ==
    (op = "greedy" /\ pc = "done" /\ topology.bps # << >>)
        => ret.score = Objective(ret.lineup)

\* C2: optimize_lineup_bruteforce returns the maximum score over all
\* combinations of the Cartesian product and, among the combinations that
\* reach it, the first one in enumeration order.
C2_BruteforceFirstMaximum ==
    (op = "brute" /\ pc = "done")
        => LET cs == Combos(topology) IN
           /\ ret.returned
           /\ \E k \in DOMAIN cs :
                 /\ ret.lineup = cs[k]
                 /\ ret.score = Objective(cs[k])
                 /\ \A j \in DOMAIN cs : Objective(cs[j]) <= Objective(cs[k])
                 /\ \A j \in 1..(k - 1) : Objective(cs[j]) < Objective(cs[k])

\* C2 witness: two combinations tie for a positive maximum and the earlier
\* one is returned.
C2_Witness ==
    /\ op = "brute" /\ pc = "done" /\ ret.score > 0
    /\ \E j \in DOMAIN Combos(topology) :
          /\ Combos(topology)[j] # ret.lineup
          /\ Objective(Combos(topology)[j]) = ret.score

\* Every full lineup: one candidate for every branch point.
FullLineups(t) ==
    {f \in [Range(t.bps) -> CandUids(t)] :
        \A b \in Range(t.bps) : f[b] \in {x.uid : x \in Range(t.branches[b])}}

RECURSIVE ProductOfSizes(_, _)
ProductOfSizes(t, bps) ==
    IF bps = << >> THEN 1
    ELSE Len(t.branches[Head(bps)]) * ProductOfSizes(t, Tail(bps))

\* C3: with no failing call, optimize_lineup_bruteforce solves once per
\* combination of the Cartesian product, each solve after a completed apply
\* of that combination, no combination twice; the number of SOLVENETWORK
\* calls is the product of the candidate-list sizes.
C3_BruteforceSolvesEveryCombinationOnce ==
    op = "brute"
        => /\ \A k \in DOMAIN solved_for :
                 /\ solved_for[k].complete
                 /\ solved_for[k].lineup \in FullLineups(topology)
                 /\ \A j \in DOMAIN solved_for :
                       solved_for[j].lineup = solved_for[k].lineup => j = k
           /\ \A k \in DOMAIN trials : trials[k].lineup = solved_for[k].lineup
           /\ pc = "done"
                 => /\ Len(solved_for) = ProductOfSizes(topology, topology.bps)
                    /\ Len(trials) = Len(solved_for)
                    /\ {solved_for[k].lineup : k \in DOMAIN solved_for}
                           = FullLineups(topology)

\* C3 witness: sizes [2,3], six solves.
C3_Witness ==
    /\ op = "brute" /\ pc = "done" /\ topology = TopoTwoThree
    /\ Len(solved_for) = 6

\* C4 as claimed: a solver error during a brute-force trial does not end the
\* run (the loop goes on and a best lineup is still returned).
C4_ErrorAbortsOnlyTheTrial ==
    (op = "brute" /\ SolverError) => pc # "raised"

\* C4 as amended: a solver error during a brute-force trial leaves
\* optimize_lineup_bruteforce as an exception: the run ends there, no further
\* combination is applied or evaluated, nothing is returned.
C4_ErrorAbortsBruteforce ==
    (op = "brute" /\ SolverError)
        => /\ pc = "raised"
           /\ ~ret.returned
           /\ ~ENABLED NextBruteforce

\* C4 witness: the error hits after an earlier combination was scored.
C4_Witness ==
    /\ op = "brute" /\ pc = "raised" /\ SolverError
    /\ Len(trials) >= 1 /\ best_score >= 0

\* C5: a solver error during a greedy trial aborts the entire run: it
\* reaches the caller, no further trial is applied or evaluated and nothing
\* is returned.
C5_ErrorAbortsGreedy ==
    (op = "greedy" /\ SolverError)
        => /\ pc = "raised"
           /\ ~ret.returned
           /\ ~ENABLED NextGreedy

\* C5 witness: the error hits the evaluation of a later trial.
C5_Witness ==
    /\ op = "greedy" /\ pc = "raised" /\ err_at \in {"solve", "read"}
    /\ Len(trials) >= 1

\* The command C6 prescribes for a trunk.
ClaimedTrunkVerb(trunk) ==
    IF trunk.uid \in locked_trunks THEN "MASK"
    ELSE IF force_unmask_trunks THEN "UNMASK"
    ELSE IF trunk.initial_masked THEN "MASK" ELSE "UNMASK"

ExpectedCalls(n) ==
    << [call |-> "SOLVENETWORK", arg |-> 0], [call |-> "SEP.COUNT", arg |-> 0] >>
    \o [k \in 1..n |-> [call |-> "OilRate", arg |-> k - 1]]

IsPrefix(s, t) == Len(s) <= Len(t) /\ SubSeq(t, 1, Len(s)) = s

\* C8: evaluate_lineup issues SOLVENETWORK first, then reads the separator
\* count, then reads the oil rate of every separator 0..count-1 once, and
\* returns the sum of the solved rates.
C8_SolveThenSumEverySeparator ==
    op = "evaluate"
        => /\ IsPrefix(evlog, ExpectedCalls(nsep))
           /\ pc = "done"
                 => /\ evlog = ExpectedCalls(nsep)
                    /\ empties = {}
                          => ret.score =
                                SumSeq([k \in 1..nsep |->
                                          OilRate(topology, masked, w, synergy,
                                                  nsep, k - 1)])

\* C8 witness: two separators, both producing.
C8_Witness ==
    /\ op = "evaluate" /\ pc = "done" /\ empties = {} /\ nsep >= 2
    /\ results[1] > 0 /\ results[2] > 0 /\ ret.score = results[1] + results[2]

\* C9 as claimed: a failed read of one separator's oil rate does not fail the
\* evaluation.
C9_FailedReadDoesNotFail ==
    (op = "evaluate" /\ err_at = "read") => pc # "raised"

\* C9 as amended: a read that returns no value, without an error code,
\* contributes 0.0 and the evaluation returns the sum of the other separators'
\* rates; a read that raises a solver error ends the evaluation with that
\* error and no score.
C9_EmptyReadIsZeroFailedReadRaises ==
    op = "evaluate"
        => /\ pc = "done"
                 => ret.score = SumSet((0..(nsep - 1)) \ empties,
                                       [k \in 0..(nsep - 1) |-> results[k + 1]])
           /\ err_at = "read" => (pc = "raised" /\ ~ret.returned)

\* C9 witness: one reading empty, the other separator's rate returned.
C9_Witness ==
    /\ op = "evaluate" /\ pc = "done" /\ Cardinality(empties) = 1
    /\ ret.score > 0
    /\ \E k \in empties : results[k + 1] > 0

\* C10: a failure of SOLVENETWORK in evaluate_lineup reaches the caller: no
\* separator is read and no score is returned.
C10_SolveFailureIsHard ==
    (op = "evaluate" /\ err_at = "solve")
        => /\ pc = "raised"
           /\ evlog = << >>
           /\ ~ret.returned
           /\ ~ENABLED NextEvaluate

\* C10 witness: the solve failed.
C10_Witness == op = "evaluate" /\ err_at = "solve" /\ pc = "raised"

\* The trials of optimize_lineup_greedy in order: (branch point index,
\* candidate) for every candidate of every branch point, in snapshot order.
RECURSIVE TrialOrder(_, _)
TrialOrder(t, i) ==
    IF i > Len(t.bps) THEN << >>
    ELSE [j \in DOMAIN t.branches[t.bps[i]] |->
             [bp |-> i, uid |-> t.branches[t.bps[i]][j].uid]]
         \o TrialOrder(t, i + 1)

RECURSIVE SumOfSizes(_, _)
SumOfSizes(t, bps) ==
    IF bps = << >> THEN 0
    ELSE Len(t.branches[Head(bps)]) + SumOfSizes(t, Tail(bps))

Upto(l, i) == [b \in {topology.bps[k] : k \in 1..i} |-> l[b]]

\* C18 as claimed: the lineup optimize_lineup_greedy returns is a local
\* optimum: replacing the choice of one branch point by another of its
\* candidates, the others held, never scores strictly higher.
C18_GreedyLocalOptimum ==
    (op = "greedy" /\ pc = "done")
        => \A bp \in Range(topology.bps) : \A c \in CandidatesOf(bp) :
              Objective(Put(ret.lineup, bp, c.uid)) <= Objective(ret.lineup)

\* C18 as amended: under a non-negative scoring function the choice at the
\* i-th branch point is the first candidate reaching the best score among
\* the lineups that hold the choices of branch points 1..i-1 and leave the
\* branch points i+1..n without entry (fully masked); only for the last
\* branch point is that the full returned lineup.
C18_GreedyStepwiseOptimum ==
    (op = "greedy" /\ pc = "done")
        => \A i \in DOMAIN topology.bps :
              LET bp    == topology.bps[i]
                  pipes == topology.branches[bp]
                  kept  == Objective(Upto(ret.lineup, i))
              IN  \E j \in DOMAIN pipes :
                     /\ ret.lineup[bp] = pipes[j].uid
                     /\ \A k \in DOMAIN pipes :
                           Objective(Put(Upto(ret.lineup, i - 1), bp, pipes[k].uid))
                               <= kept
                     /\ \A k \in 1..(j - 1) :
                           Objective(Put(Upto(ret.lineup, i - 1), bp, pipes[k].uid))
                               < kept

\* C18 witness: a returned lineup that another first-branch-point candidate
\* beats once the second branch point is open.
C18_Witness ==
    /\ op = "greedy" /\ pc = "done" /\ topology = TopoTwoThree
    /\ \E c \in CandidatesOf("J1") :
          Objective(Put(ret.lineup, "J1", c.uid)) > Objective(ret.lineup)

\* ------------------------------------------- the snapshot through search
\* Every operation, each on its own inputs and with the solver calls of its
\* own code only.
NextEngine ==
    \/ op = "apply" /\ NextApply
    \/ op = "evaluate" /\ NextEvaluate
    \/ op = "brute" /\ NextBruteforce
    \/ op = "greedy" /\ NextGreedy

SpecEngine == Init /\ [][NextEngine]_vars

\* C19: no step of apply_lineup, evaluate_lineup, optimize_lineup_bruteforce
\* or optimize_lineup_greedy changes the snapshot: its trunks, candidate
\* lists and initial_masked flags stay as they were passed in.
C19_SnapshotImmutable == [][topology' = topology]_vars

\* C19 witness: a search has returned and the solver's mask state is no
\* longer the one it started from.
C19_Witness ==
    /\ op \in {"brute", "greedy"} /\ pc = "done" /\ ret.returned
    /\ masked # masked0

\* ---------------------------------------------------- restore to original
\* srv.get_value(...EQUIP[uid].ISMASKED) of a solver in mask state m.
IsMaskedValue(m, uid) == Value(IF m[uid] THEN 1 ELSE 0)

\* bool(int(value or 0)): line 132.
InitialMasked(value) == IF value.empty THEN FALSE ELSE value.num # 0

\* The trunk records extract_topology builds from a solver in mask state m:
\* lines 131-138.
ExtractedTrunks(t, m) ==
    [t EXCEPT !.trunks =
        [i \in DOMAIN t.trunks |->
            Trunk(t.trunks[i].uid, t.trunks[i].type,
                  InitialMasked(IsMaskedValue(m, t.trunks[i].uid)))]]

\* The solver states at extraction: any mask state of the trunks, every
\* candidate open.
TrunkMasks(t) ==
    {m \in [Equip(t) -> BOOLEAN] : \A c \in CandUids(t) : ~m[c]}

\* A snapshot extracted from the solver, then apply_lineup called on it.
InitRestore ==
    /\ op = "apply"
    /\ masked \in TrunkMasks(TopoMixed)
    /\ topology = ExtractedTrunks(TopoMixed, masked)
    /\ force_unmask_trunks \in BOOLEAN
    /\ locked_trunks \in SUBSET TrunkUids(topology)
    /\ lineup \in Lineups(topology)
    /\ w = [c \in CandUids(topology) |-> 0] /\ synergy = FALSE /\ nsep = MaxSep
    /\ results = [k \in 1..nsep |-> 0]
    /\ Locals /\ GraphIdle /\ JsonIdle

\* The caller calls apply_lineup once more on the same snapshot, after the
\* previous call returned or raised, with any lineup, policy and locked set.
CallApplyAgain ==
    /\ op = "apply" /\ pc \in {"done", "raised"}
    /\ \E l \in Lineups(topology), f \in BOOLEAN,
          lk \in SUBSET TrunkUids(topology) :
          /\ force_unmask_trunks' = f
          /\ locked_trunks' = lk
          /\ EnterApply(l)
    /\ entry_mask' = masked
    /\ err_at' = "none"
    /\ UNCHANGED << graphv, op, topology, oracle, masked, results, evalv, optv,
                    ret, trials, solved_for, empties, masked0, interfered,
                    solved_mask >>

NextRestore == CallApply \/ ApplySteps \/ CallApplyAgain

\* Any sequence of apply_lineup calls on an extracted snapshot.
SpecRestore == InitRestore /\ [][NextRestore]_vars

MaxEdges == 3

\* The catalog get_uid_maps builds, uid -> TYPE in dict order; the pipes,
\* also in the catalog, are neither wells nor separators and are left out.
Catalog ==
    << [uid |-> "W1", type |-> "WELL"], [uid |-> "W2", type |-> "WELL"],
       [uid |-> "J1", type |-> "JOINT"], [uid |-> "SEP1", type |-> "SEP"],
       [uid |-> "SEP2", type |-> "SEP"] >>

\* End points of the generated graphs.
Nodes == {"W1", "W2", "J1", "SEP1"}

PipeUids == << "P1", "P2", "P3", "P4", "P5" >>

\* One entry of the dict get_all_edges_with_uids returns:
\* edges[uid] = (enda, endb, etype).
Edge(i, a, b) == [uid |-> PipeUids[i], enda |-> a, endb |-> b, etype |-> "PIPE"]

\* {P1:(W1,J1), P2:(J1,SEP1), P3:(J1,SEP2)}
ScenarioEdges ==
    << Edge(1, "W1", "J1"), Edge(2, "J1", "SEP1"), Edge(3, "J1", "SEP2") >>

\* Every edge dict of at most MaxEdges edges over Nodes, in insertion order:
\* parallel edges, self loops and cycles included.
EdgeDicts ==
    {[i \in DOMAIN f |-> Edge(i, f[i][1], f[i][2])] :
        f \in UNION {[1..n -> Nodes \X Nodes] : n \in 0..MaxEdges}}
    \cup {ScenarioEdges}

\* graph[enda].append((eq_uid, endb, etype)): line 49.
GraphPrepend(graph, e) ==
    LET out == [eq_uid |-> e.uid, endb |-> e.endb, etype |-> e.etype]
    IN  IF e.enda \in DOMAIN graph
        THEN [graph EXCEPT ![e.enda] = << out >> \o @]
        ELSE Put(graph, e.enda, << out >>)
GraphAppend(graph, e) ==
    LET out == [eq_uid |-> e.uid, endb |-> e.endb, etype |-> e.etype]
    IN  IF e.enda \in DOMAIN graph
        THEN [graph EXCEPT ![e.enda] = Append(@, out)]
        ELSE Put(graph, e.enda, << out >>)

\* build_directed_graph(edges): lines 43-50.
RECURSIVE build_directed_graph(_)
build_directed_graph(es) ==
    IF es = << >> THEN [n \in {} |-> << >>]
    ELSE GraphAppend(build_directed_graph(SubSeq(es, 1, Len(es) - 1)),
                     es[Len(es)])

\* graph.get(node, [])
Outs(graph, node) == IF node \in DOMAIN graph THEN graph[node] ELSE << >>

\* [u for u, t in uid_type.items() if t == "WELL"]: lines 66 and 95.
WellsFirstOnly(cat) ==
    LET ws == SelectSeq(cat, LAMBDA r : r.type = "WELL")
    IN  IF ws = << >> THEN << >> ELSE << ws[1].uid >>
RECURSIVE Wells(_)
Wells(cat) ==
    IF cat = << >> THEN << >>
    ELSE (IF Head(cat).type = "WELL" THEN << Head(cat).uid >> ELSE << >>)
         \o Wells(Tail(cat))

\* {u for u, t in uid_type.items() if t == "SEP"}: line 96.
Seps(cat) == {r.uid : r \in {x \in Range(cat) : x.type = "SEP"}}

\* No lineup operation is running.
EngineIdle ==
    /\ topology = TopoScenario
    /\ force_unmask_trunks = TRUE /\ locked_trunks = {}
    /\ masked = [e \in Equip(topology) |-> FALSE]
    /\ lineup = EmptyLineup
    /\ w = [c \in CandUids(topology) |-> 0] /\ synergy = FALSE /\ nsep = MaxSep
    /\ results = [k \in 1..nsep |-> 0]
    /\ Locals

InitGraph ==
    /\ EngineIdle
    /\ edges \in EdgeDicts
    /\ uid_type = Catalog
    /\ visited = {} /\ trunks = {} /\ branches = [n \in {} |-> << >>]
    /\ stack = << >> /\ widx = 0 /\ routes = [n \in {} |-> << >>]
    /\ ScanIdle /\ JsonIdle

\* ---------------------------------------------- find_trunks_and_branches
\* if node in visited: line 70.
SeenNever(node, seen) == FALSE
Seen(node, seen) == node \in seen

\* if len(outs) == 1: line 75.
IsTrunk(outs) == Len(outs) = 1

\* elif len(outs) > 1: line 79.
IsBranchAtLeastThree(outs) == Len(outs) > 2
IsBranch(outs) == Len(outs) > 1

\* branches[node].append(pipe_uid) on a defaultdict(list): line 81.
AppendTo(d, k, v) ==
    IF k \in DOMAIN d THEN [d EXCEPT ![k] = Append(@, v)] ELSE Put(d, k, << v >>)

\* A frame of the classifier's dfs: its node and the number of outs handled.
Frame(node, k) == [node |-> node, k |-> k]

Top == stack[Len(stack)]
Pop == SubSeq(stack, 1, Len(stack) - 1)

\* The frame below calls dfs(endb) from its (k+1)-th out.
Descend(k, endb) ==
    Append(Append(Pop, [Top EXCEPT !.k = k + 1]), Frame(endb, 0))

\* find_trunks_and_branches(edges, uid_type) up to the loop over wells:
\* lines 63-67.
CallClassify ==
    /\ op = "classify" /\ pc = "start"
    /\ visited' = {} /\ trunks' = {} /\ branches' = [n \in {} |-> << >>]
    /\ widx' = 0 /\ stack' = << >>
    /\ pc' = "wells"
    /\ UNCHANGED << jsonv, first, scanv, op, enginev, edges, uid_type, routes >>

\* for w in wells: dfs(w): lines 85-86.
ClassifyWell ==
    /\ op = "classify" /\ pc = "wells" /\ stack = << >>
    /\ widx < Len(Wells(uid_type))
    /\ widx' = widx + 1
    /\ stack' = << Frame(Wells(uid_type)[widx + 1], 0) >>
    /\ UNCHANGED << jsonv, first, scanv, op, pc, enginev, edges, uid_type, visited, trunks,
                    branches, routes >>

\* dfs(node) from its entry to its first recursive call or its return:
\* lines 69-82.
DfsEnter ==
    /\ op = "classify" /\ pc = "wells" /\ stack # << >> /\ Top.k = 0
    /\ LET node == Top.node
           outs == Outs(build_directed_graph(edges), node)
       IN  IF Seen(node, visited)
           THEN /\ stack' = Pop
                /\ UNCHANGED << visited, trunks, branches >>
           ELSE /\ visited' = visited \cup {node}
                /\ IF IsTrunk(outs)
                   THEN /\ trunks' = trunks \cup {outs[1].eq_uid}
                        /\ stack' = Descend(0, outs[1].endb)
                        /\ UNCHANGED branches
                   ELSE IF IsBranch(outs)
                   THEN /\ branches' = AppendTo(branches, node, outs[1].eq_uid)
                        /\ stack' = Descend(0, outs[1].endb)
                        /\ UNCHANGED trunks
                   ELSE /\ stack' = Pop
                        /\ UNCHANGED << trunks, branches >>
    /\ UNCHANGED << jsonv, first, scanv, op, pc, enginev, edges, uid_type, widx, routes >>

\* dfs(node) after a recursive call returned: the next out of a branch
\* point, or the return: lines 80-82.
DfsResume ==
    /\ op = "classify" /\ pc = "wells" /\ stack # << >> /\ Top.k > 0
    /\ LET node == Top.node
           outs == Outs(build_directed_graph(edges), node)
       IN  IF IsBranch(outs) /\ Top.k < Len(outs)
           THEN /\ branches' = AppendTo(branches, node, outs[Top.k + 1].eq_uid)
                /\ stack' = Descend(Top.k, outs[Top.k + 1].endb)
           ELSE /\ stack' = Pop
                /\ UNCHANGED branches
    /\ UNCHANGED << jsonv, first, scanv, op, pc, enginev, edges, uid_type, visited, trunks, widx,
                    routes >>

\* return trunks, branches: line 88.
ClassifyReturn ==
    /\ op = "classify" /\ pc = "wells" /\ stack = << >>
    /\ widx = Len(Wells(uid_type))
    /\ pc' = "done"
    /\ UNCHANGED << op, enginev, graphv >>

NextClassify ==
    CallClassify \/ ClassifyWell \/ DfsEnter \/ DfsResume \/ ClassifyReturn

InitClassify == op = "classify" /\ InitGraph

\* One call of find_trunks_and_branches on any graph.
SpecClassify == InitClassify /\ [][NextClassify]_vars

\* The nodes reachable from the set S through directed edges.
RECURSIVE ReachableFrom(_)
ReachableFrom(S) ==
    LET T == S \cup {e.endb : e \in {x \in Range(edges) : x.enda \in S}}
    IN  IF T = S THEN S ELSE ReachableFrom(T)

Reachable == ReachableFrom(Range(Wells(uid_type)))

\* The number of positions of the sequence s holding x.
Occurrences(s, x) == Cardinality({i \in DOMAIN s : s[i] = x})

\* How many times the classifier has listed the edge uid.
Classified(uid) ==
    (IF uid \in trunks THEN 1 ELSE 0)
    + SumSet(DOMAIN branches,
             [b \in DOMAIN branches |-> Occurrences(branches[b], uid)])

\* C11: find_trunks_and_branches classifies every edge whose start node is
\* reachable from a well exactly once, as a trunk or as one entry of one
\* branch point's candidate list, and no other edge at all.
C11_ClassifiedExactlyOnce ==
    (op = "classify" /\ pc = "done")
        => \A i \in DOMAIN edges :
              Classified(edges[i].uid)
                  = IF edges[i].enda \in Reachable THEN 1 ELSE 0

\* C11 witness: a classified graph with a branch point and an edge out of
\* reach of every well.
C11_Witness ==
    /\ op = "classify" /\ pc = "done"
    /\ DOMAIN branches # {}
    /\ \E i \in DOMAIN edges :
          edges[i].enda \notin Reachable /\ Classified(edges[i].uid) = 0

\* The UIDs of the edges leaving node, in the order of the edge dict.
RECURSIVE OutEdgeUids(_, _)
OutEdgeUids(es, node) ==
    IF es = << >> THEN << >>
    ELSE (IF Head(es).enda = node THEN << Head(es).uid >> ELSE << >>)
         \o OutEdgeUids(Tail(es), node)

\* C12: the classification is the reference rule: the single out-edge of a
\* reachable node is a trunk, a reachable node with several out-edges is a
\* branch point whose candidate list is those edges in adjacency order, and
\* nothing else is a trunk or a branch point; the two-branch example gives
\* trunks {P1} and branches {J1: [P2, P3]}.
C12_ReferenceRule ==
    (op = "classify" /\ pc = "done")
        => /\ trunks = {OutEdgeUids(edges, n)[1] :
                           n \in {x \in Reachable : Len(OutEdgeUids(edges, x)) = 1}}
           /\ DOMAIN branches = {x \in Reachable : Len(OutEdgeUids(edges, x)) > 1}
           /\ \A n \in DOMAIN branches : branches[n] = OutEdgeUids(edges, n)
           /\ (\A n \in Reachable : Len(OutEdgeUids(edges, n)) <= 1)
                 => DOMAIN branches = {}
           /\ edges = ScenarioEdges
                 => trunks = {"P1"} /\ branches = [n \in {"J1"} |-> << "P2", "P3" >>]

\* C12 witness: the two-branch example, classified.
C12_Witness ==
    /\ op = "classify" /\ pc = "done" /\ edges = ScenarioEdges
    /\ trunks = {"P1"} /\ DOMAIN branches = {"J1"}

\* -------------------------------------------- find_paths_from_well_to_sep
\* if neigh_uid not in visited: line 106.
Fresh(neigh, seen) == neigh \notin seen

\* path + [eq_uid, neigh_uid]: line 107.
ExtendNodesOnly(path, eq_uid, neigh) == path \o << neigh >>
Extend(path, eq_uid, neigh) == path \o << eq_uid, neigh >>

\* paths.extend(new_paths): line 108.
ExtendedOverwrite(paths, new_paths) == new_paths
Extended(paths, new_paths) == paths \o new_paths

\* results[w] = dfs(w, [w], {w}): line 113.
ResultIfAny(d, well, paths) == IF paths = << >> THEN d ELSE Put(d, well, paths)
Result(d, well, paths) == Put(d, well, paths)

\* A frame of the enumerator's dfs(node, path, visited): the number of outs
\* handled and its local list paths.
PathFrame(node, path, seen) ==
    [node |-> node, path |-> path, visited |-> seen, k |-> 0, paths |-> << >>]

\* dfs returns ps to its caller: the dfs below, or the loop over wells.
ReturnPaths(ps) ==
    IF Len(stack) > 1
    THEN /\ stack' = [Pop EXCEPT ![Len(stack) - 1].paths = Extended(@, ps)]
         /\ UNCHANGED routes
    ELSE /\ stack' = << >>
         /\ routes' = Result(routes, Wells(uid_type)[widx], ps)

\* find_paths_from_well_to_sep(graph, uid_type) up to the loop over wells:
\* lines 94-96.
CallPaths ==
    /\ op = "paths" /\ pc = "start"
    /\ routes' = [n \in {} |-> << >>]
    /\ widx' = 0 /\ stack' = << >>
    /\ pc' = "wells"
    /\ UNCHANGED << jsonv, first, scanv, op, enginev, edges, uid_type, visited, trunks, branches >>

\* for w in wells: dfs(w, [w], {w}): lines 112-113.
PathsWell ==
    /\ op = "paths" /\ pc = "wells" /\ stack = << >>
    /\ widx < Len(Wells(uid_type))
    /\ widx' = widx + 1
    /\ LET well == Wells(uid_type)[widx + 1]
       IN  stack' = << PathFrame(well, << well >>, {well}) >>
    /\ UNCHANGED << jsonv, first, scanv, op, pc, enginev, edges, uid_type, visited, trunks,
                    branches, routes >>

\* if node in seps: return [path]: lines 103-104.
PathDfsSep ==
    /\ op = "paths" /\ pc = "wells" /\ stack # << >>
    /\ Top.node \in Seps(uid_type)
    /\ ReturnPaths(<< Top.path >>)
    /\ UNCHANGED << jsonv, first, scanv, op, pc, enginev, edges, uid_type, visited, trunks,
                    branches, widx >>

\* One iteration of the loop over graph.get(node, []): lines 105-108, up to
\* the recursive call.
PathDfsEdge ==
    /\ op = "paths" /\ pc = "wells" /\ stack # << >>
    /\ Top.node \notin Seps(uid_type)
    /\ LET outs == Outs(build_directed_graph(edges), Top.node)
       IN  /\ Top.k < Len(outs)
           /\ LET out  == outs[Top.k + 1]
                  here == Append(Pop, [Top EXCEPT !.k = Top.k + 1])
              IN  stack' = IF Fresh(out.endb, Top.visited)
                           THEN Append(here,
                                  PathFrame(out.endb,
                                            Extend(Top.path, out.eq_uid, out.endb),
                                            Top.visited \cup {Top.node}))
                           ELSE here
    /\ UNCHANGED << jsonv, first, scanv, op, pc, enginev, edges, uid_type, visited, trunks,
                    branches, widx, routes >>

\* return paths: line 110.
PathDfsReturn ==
    /\ op = "paths" /\ pc = "wells" /\ stack # << >>
    /\ Top.node \notin Seps(uid_type)
    /\ Top.k = Len(Outs(build_directed_graph(edges), Top.node))
    /\ ReturnPaths(Top.paths)
    /\ UNCHANGED << jsonv, first, scanv, op, pc, enginev, edges, uid_type, visited, trunks,
                    branches, widx >>

\* return results: line 114.
PathsReturn ==
    /\ op = "paths" /\ pc = "wells" /\ stack = << >>
    /\ widx = Len(Wells(uid_type))
    /\ pc' = "done"
    /\ UNCHANGED << op, enginev, graphv >>

NextPaths ==
    CallPaths \/ PathsWell \/ PathDfsSep \/ PathDfsEdge \/ PathDfsReturn
    \/ PathsReturn

InitPaths == op = "paths" /\ InitGraph

\* One call of find_paths_from_well_to_sep on any graph.
SpecPaths == InitPaths /\ [][NextPaths]_vars

\* The simple directed paths from node to a separator that meet no node of
\* seen and no separator before their end, as node, edge, node, ... lists.
RECURSIVE SimplePaths(_, _)
SimplePaths(node, seen) ==
    IF node \in Seps(uid_type) THEN {<< node >>}
    ELSE UNION {{<< node, e.uid >> \o p : p \in SimplePaths(e.endb, seen \cup {e.endb})} :
                   e \in {x \in Range(edges) : x.enda = node /\ x.endb \notin seen}}

\* C13: find_paths_from_well_to_sep returns a key for every well of the
\* catalog and raises nothing; a well from which no separator can be reached
\* (no out-edge, dead ends only, cycles only) maps to the empty list.
C13_EveryWellHasAKey ==
    /\ op = "paths" => pc # "raised"
    /\ (op = "paths" /\ pc = "done")
          => /\ DOMAIN routes = Range(Wells(uid_type))
             /\ \A well \in DOMAIN routes :
                   ReachableFrom({well}) \cap Seps(uid_type) = {}
                       => routes[well] = << >>

\* C13 witness: one well on a cycle with no separator, one with no out-edge,
\* both mapped to the empty list.
C13_Witness ==
    /\ op = "paths" /\ pc = "done"
    /\ \E i \in DOMAIN edges : edges[i].enda = "W1" /\ edges[i].endb = "J1"
    /\ \E i \in DOMAIN edges : edges[i].enda = "J1" /\ edges[i].endb = "W1"
    /\ \A i \in DOMAIN edges : edges[i].enda # "W2"
    /\ routes["W1"] = << >> /\ routes["W2"] = << >>

\* Every route found so far: the returned ones and the ones held in the
\* paths lists of the dfs calls in progress.
FoundRoutes ==
    UNION {Range(routes[well]) : well \in DOMAIN routes}
    \cup UNION {Range(stack[i].paths) : i \in DOMAIN stack}

\* C14: every route is a list node, edge, node, ..., node of odd length that
\* starts at its well, ends at a separator, holds no separator before its
\* end, and whose every (node, edge, node) triple is an edge of the input
\* from its EndA to its EndB.
C14_RoutesAlternate ==
    op = "paths"
        => /\ \A well \in DOMAIN routes : \A r \in Range(routes[well]) :
                 r[1] = well
           /\ \A r \in FoundRoutes :
                 /\ Len(r) % 2 = 1
                 /\ r[1] \in Range(Wells(uid_type))
                 /\ r[Len(r)] \in Seps(uid_type)
                 /\ \A k \in 1..(Len(r) - 1) : r[k] \notin Seps(uid_type)
                 /\ \A k \in 1..((Len(r) - 1) \div 2) :
                       \E i \in DOMAIN edges :
                          /\ edges[i].enda = r[2 * k - 1]
                          /\ edges[i].uid = r[2 * k]
                          /\ edges[i].endb = r[2 * k + 1]

\* C14 witness: a returned route of three edges.
C14_Witness ==
    /\ op = "paths" /\ pc = "done"
    /\ \E r \in Range(routes["W1"]) : Len(r) = 7

\* Position of the edge uid in the edge dict.
EdgeIndex(uid) == CHOOSE i \in DOMAIN edges : edges[i].uid = uid

\* Route r comes before route s in depth-first adjacency order: at the first
\* place where they part, r takes the earlier edge.
Before(r, s) ==
    \E k \in 1..((Len(r) - 1) \div 2) :
       /\ 2 * k <= Len(s)
       /\ SubSeq(r, 1, 2 * k - 1) = SubSeq(s, 1, 2 * k - 1)
       /\ EdgeIndex(r[2 * k]) < EdgeIndex(s[2 * k])

\* C15: the enumeration is complete and ordered: every simple directed path
\* from a well to a separator with no separator inside is in the well's
\* routes exactly once, the routes are in depth-first adjacency order, the
\* two-branch example gives its two routes in that order, and a node shared
\* by two wells is on the routes of both.
C15_RoutesComplete ==
    (op = "paths" /\ pc = "done")
        => /\ \A well \in DOMAIN routes :
                 /\ \A p \in SimplePaths(well, {well}) :
                       Occurrences(routes[well], p) = 1
                 /\ \A i, j \in DOMAIN routes[well] :
                       i < j => Before(routes[well][i], routes[well][j])
           /\ edges = ScenarioEdges
                 => routes["W1"] = << << "W1", "P1", "J1", "P2", "SEP1" >>,
                                      << "W1", "P1", "J1", "P3", "SEP2" >> >>
           /\ \A n \in Nodes :
                 (\A well \in DOMAIN routes :
                     \E p \in SimplePaths(well, {well}) : n \in Range(p))
                 => \A well \in DOMAIN routes :
                       \E r \in Range(routes[well]) : n \in Range(r)

\* C15 witness: two wells whose routes share the node J1 and the edge to
\* the separator.
C15_Witness ==
    /\ op = "paths" /\ pc = "done"
    /\ \E r \in Range(routes["W1"]) : \E s \in Range(routes["W2"]) :
          /\ Len(r) = 5 /\ Len(s) = 5
          /\ r[3] = "J1" /\ s[3] = "J1" /\ r[4] = s[4]

\* ------------------------------------- get_uid_maps, get_all_edges_with_uids
\* equip_types = TWO_PORT_TYPES, in list order: lines 6 and 26.
EquipTypes == << "PIPE", "INLCHK", "INLGEN" >>

\* The equipment the solver's model holds: EQUIP[i].UniqueID, .Type, .Label.
SolverEquip ==
    << [uid |-> "W1", etype |-> "Well", label |-> "Well 1"],
       [uid |-> "SEP1", etype |-> "Sep", label |-> "Separator"] >>

\* The two-port equipment the solver's model holds, by type:
\* {etype}[i].UniqueID, .EndA.UniqueID, .EndB.UniqueID.
SolverPipes ==
    [t \in Range(EquipTypes) |->
        IF t = "PIPE" THEN << [uid |-> "P1", enda |-> "W1", endb |-> "J1"],
                              [uid |-> "P2", enda |-> "J1", endb |-> "SEP1"] >>
        ELSE IF t = "INLGEN" THEN << [uid |-> "P3", enda |-> "J1", endb |-> "SEP1"] >>
        ELSE << >>]

\* etype.upper(): line 21.
Upper(t) ==
    CASE t = "Well" -> "WELL"
      [] t = "Sep"  -> "SEP"
      [] OTHER      -> t

\* The truth value Python gives a reading: None and "" are false.
Truthy(v) == v # ""

\* int(value or 0): lines 14 and 33.
IntOrZero(value) == IF value.empty THEN 0 ELSE value.num

\* if uid: line 20.
KeepEquip(r) == Truthy(r.uid)

\* if uid and enda and endb: line 37.
KeepEdgeUidOnly(r, endb) == Truthy(r.uid)
KeepEdge(r, endb) == Truthy(r.uid) /\ Truthy(r.enda) /\ Truthy(endb)

\* The read the scan is about to make.
ReadId == << pc, etype_i, IF pc \in {"ecount", "pcount"} THEN 0 ELSE scan_i >>

\* The value the solver holds for that read.
HeldCount ==
    Value(IF pc = "ecount" THEN Len(SolverEquip)
          ELSE Len(SolverPipes[EquipTypes[etype_i]]))
HeldText ==
    CASE pc = "euid"   -> SolverEquip[scan_i + 1].uid
      [] pc = "etype"  -> SolverEquip[scan_i + 1].etype
      [] pc = "elabel" -> SolverEquip[scan_i + 1].label
      [] pc = "puid"   -> SolverPipes[EquipTypes[etype_i]][scan_i + 1].uid
      [] pc = "penda"  -> SolverPipes[EquipTypes[etype_i]][scan_i + 1].enda
      [] pc = "pendb"  -> SolverPipes[EquipTypes[etype_i]][scan_i + 1].endb

\* Where the code goes when a loop over range(n) ends: the count of the next
\* equipment type, or the return of get_all_edges_with_uids.
AfterLoop ==
    IF etype_i < Len(EquipTypes)
    THEN [pc |-> "pcount", t |-> etype_i + 1]
    ELSE [pc |-> "scanned", t |-> etype_i]

\* The code from one get_value that returned (count for a COUNT read, text
\* for any other) up to the next get_value: lines 14-22 and 32-39.
AfterRead(count, text) ==
    CASE pc \in {"ecount", "pcount"} ->
            /\ scan_n' = IntOrZero(count) /\ scan_i' = 0
            /\ IF IntOrZero(count) > 0
               THEN /\ pc' = IF pc = "ecount" THEN "euid" ELSE "puid"
                    /\ etype_i' = etype_i
               ELSE /\ pc' = AfterLoop.pc /\ etype_i' = AfterLoop.t
            /\ UNCHANGED << row, uid_type, edges >>
      [] pc \in {"euid", "puid"} ->
            /\ row' = [uid |-> text]
            /\ pc' = IF pc = "euid" THEN "etype" ELSE "penda"
            /\ UNCHANGED << scan_n, scan_i, etype_i, uid_type, edges >>
      [] pc = "etype" ->
            /\ row' = [uid |-> row.uid, etype |-> text]
            /\ pc' = "elabel"
            /\ UNCHANGED << scan_n, scan_i, etype_i, uid_type, edges >>
      [] pc = "penda" ->
            /\ row' = [uid |-> row.uid, enda |-> text]
            /\ pc' = "pendb"
            /\ UNCHANGED << scan_n, scan_i, etype_i, uid_type, edges >>
      [] pc = "elabel" ->
            /\ uid_type' =
                  IF KeepEquip(row)
                  THEN Append(uid_type,
                         [uid   |-> row.uid,
                          type  |-> IF Truthy(row.etype) THEN Upper(row.etype)
                                    ELSE "UNKNOWN",
                          label |-> IF Truthy(text) THEN text ELSE row.uid])
                  ELSE uid_type
            /\ scan_i' = scan_i + 1
            /\ IF scan_i + 1 < scan_n
               THEN pc' = "euid" /\ etype_i' = etype_i
               ELSE pc' = AfterLoop.pc /\ etype_i' = AfterLoop.t
            /\ UNCHANGED << scan_n, row, edges >>
      [] pc = "pendb" ->
            /\ edges' =
                  IF KeepEdge(row, text)
                  THEN Append(edges,
                         [uid |-> row.uid, enda |-> row.enda, endb |-> text,
                          etype |-> EquipTypes[etype_i]])
                  ELSE edges
            /\ scan_i' = scan_i + 1
            /\ IF scan_i + 1 < scan_n
               THEN pc' = "puid" /\ etype_i' = etype_i
               ELSE pc' = AfterLoop.pc /\ etype_i' = AfterLoop.t
            /\ UNCHANGED << scan_n, row, uid_type >>

Scanning ==
    /\ op = "extract"
    /\ pc \in {"ecount", "euid", "etype", "elabel", "pcount", "puid", "penda",
               "pendb"}

walkv == << visited, trunks, branches, stack, widx, routes >>

\* extract_topology calls get_uid_maps: lines 123 and 14.
CallExtract ==
    /\ op = "extract" /\ pc = "start"
    /\ pc' = "ecount"
    /\ uid_type' = << >> /\ edges' = << >>
    /\ UNCHANGED << jsonv, first, op, enginev, walkv, scanv >>

\* srv.get_value returns what the solver holds.
ScanReadOk ==
    /\ Scanning
    /\ AfterRead(HeldCount, IF pc \in {"ecount", "pcount"} THEN "" ELSE HeldText)
    /\ UNCHANGED << jsonv, first, op, enginev, walkv, missing >>

\* srv.get_value returns an empty value, with no error code.
ScanReadEmpty ==
    /\ Scanning
    /\ AfterRead(EmptyValue, "")
    /\ missing' = missing \cup {ReadId}
    /\ UNCHANGED << jsonv, first, op, enginev, walkv >>

\* srv.get_value raises.
ScanReadFail ==
    /\ Scanning
    /\ Raise
    /\ UNCHANGED << graphv, inputs, oracle, masked, results, applyv, evalv, optv,
                    ret, trials, solved_for, empties, masked0, entry_mask, interfered, solved_mask >>

\* The rest of extract_topology, from the scanned catalog and edges to the
\* returned snapshot: lines 126-167.
ExtractReturn ==
    /\ op = "extract" /\ pc = "scanned"
    /\ pc' = "done"
    /\ ret' = [ret EXCEPT !.returned = TRUE]
    /\ UNCHANGED << graphv, inputs, oracle, masked, results, applyv, evalv, optv,
                    histv >>

NextExtract ==
    CallExtract \/ ScanReadOk \/ ScanReadEmpty \/ ScanReadFail \/ ExtractReturn

InitExtract ==
    /\ op = "extract"
    /\ EngineIdle /\ GraphIdle /\ JsonIdle

\* One call of extract_topology on the solver's model.
SpecExtract == InitExtract /\ [][NextExtract]_vars

\* The reads whose value decides what the snapshot holds: counts, UIDs and
\* end points.
Structural == {"ecount", "euid", "pcount", "puid", "penda", "pendb"}

\* The equipment the catalog scan reaches and whose UID it is given.
SuppliedEquip ==
    {SolverEquip[i].uid :
        i \in {k \in DOMAIN SolverEquip :
                  /\ << "ecount", 0, 0 >> \notin missing
                  /\ << "euid", 0, k - 1 >> \notin missing}}

\* The edges the edge scan reaches and whose UID and end points it is given.
SuppliedPipes ==
    UNION {{[uid |-> SolverPipes[EquipTypes[t]][k].uid,
             enda |-> SolverPipes[EquipTypes[t]][k].enda,
             endb |-> SolverPipes[EquipTypes[t]][k].endb,
             etype |-> EquipTypes[t]] :
               k \in {j \in DOMAIN SolverPipes[EquipTypes[t]] :
                         /\ << "pcount", t, 0 >> \notin missing
                         /\ << "puid", t, j - 1 >> \notin missing
                         /\ << "penda", t, j - 1 >> \notin missing
                         /\ << "pendb", t, j - 1 >> \notin missing}} :
           t \in DOMAIN EquipTypes}

AppliesEntered ==
    IF op = "brute" THEN combo
    ELSE IF op = "greedy"
    THEN (IF phase = "final" THEN SumOfSizes(topology, topology.bps) + 1
          ELSE SumOfSizes(topology, SubSeq(topology.bps, 1, bp_idx - 1))
               + pipe_idx)
    ELSE 1

\* C21: a MASK/UNMASK command that raises ends that apply_lineup: the
\* commands issued are the ones before it and no other follows, the error
\* reaches the caller, and in both optimizers the lineup being applied is
\* neither solved nor scored: the solves and the scores are those of the
\* applications completed before.
C21_ApplyErrorAborts ==
    err_at = "apply"
        => /\ pc = "raised" /\ ~ret.returned
           /\ ai < Len(CurCmds) /\ cmds = SubSeq(CurCmds, 1, ai)
           /\ ~ENABLED NextEngine
           /\ op \in {"brute", "greedy"}
                 => /\ Len(solved_for) = AppliesEntered - 1
                    /\ Len(trials) = AppliesEntered - 1
                    /\ \A k \in DOMAIN solved_for : solved_for[k].complete

\* C21 witness: the second command of a later trial's application raises.
C21_Witness ==
    /\ op \in {"brute", "greedy"} /\ err_at = "apply" /\ pc = "raised"
    /\ ai >= 1 /\ Len(trials) >= 1

\* ------------------------------- save_topology_json, load_topology_json
\* Largest number of trunks of a saved snapshot.
MaxTrunks == 2

\* The tokens of a JSON text: punctuation, the literals true, false and
\* null, and quoted strings.  The white space indent=2 puts between tokens
\* carries nothing and is left out; with ensure_ascii=False and a UTF-8
\* file on both sides a string's characters are written and read as they
\* are.
Punct(c) == [t |-> "punct", text |-> c]
Literal(c) == [t |-> "literal", text |-> c]
Quoted(c) == [t |-> "string", text |-> c]

\* json.dump of a boolean: True -> true, False -> false.
BoolTokenQuoted(b) == Quoted(IF b THEN "true" ELSE "false")
BoolToken(b) == Literal(IF b THEN "true" ELSE "false")

\* json.dump(data, f, indent=2, ensure_ascii=False): line 174.
RECURSIVE Dump(_), DumpItems(_), DumpPairs(_, _)
Dump(v) ==
    CASE v.kind = "null" -> << Literal("null") >>
      [] v.kind = "str"  -> << Quoted(v.text) >>
      [] v.kind = "bool" -> << BoolToken(v.b) >>
      [] v.kind = "list" -> << Punct("[") >> \o DumpItems(v.items) \o << Punct("]") >>
      [] v.kind = "dict" -> << Punct("{") >> \o DumpPairs(v.keys, v.vals)
                            \o << Punct("}") >>
DumpItems(items) ==
    IF items = << >> THEN << >>
    ELSE Dump(Head(items))
         \o (IF Len(items) > 1 THEN << Punct(",") >> ELSE << >>)
         \o DumpItems(Tail(items))
DumpPairs(keys, vals) ==
    IF keys = << >> THEN << >>
    ELSE << Quoted(Head(keys)), Punct(":") >> \o Dump(Head(vals))
         \o (IF Len(keys) > 1 THEN << Punct(",") >> ELSE << >>)
         \o DumpPairs(Tail(keys), Tail(vals))

\* json.load(f): line 180.  Each parser takes the tokens still to read and
\* gives the value read and the tokens after it; an object becomes a dict
\* in the order of the text, an array a list.
RECURSIVE ParseValue(_), ParseItems(_, _), ParsePairs(_, _, _)
ParseValue(toks) ==
    LET tok == Head(toks) IN
    CASE tok.t = "string" -> [value |-> JsonStr(tok.text), rest |-> Tail(toks)]
      [] tok.t = "literal" ->
            [value |-> IF tok.text = "null" THEN JsonNone
                       ELSE JsonBool(tok.text = "true"),
             rest |-> Tail(toks)]
      [] tok = Punct("[") -> ParseItems(Tail(toks), << >>)
      [] tok = Punct("{") -> ParsePairs(Tail(toks), << >>, << >>)
ParseItems(toks, items) ==
    IF Head(toks) = Punct("]")
    THEN [value |-> JsonList(items), rest |-> Tail(toks)]
    ELSE IF Head(toks) = Punct(",") THEN ParseItems(Tail(toks), items)
    ELSE LET item == ParseValue(toks)
         IN  ParseItems(item.rest, Append(items, item.value))
ParsePairs(toks, keys, vals) ==
    IF Head(toks) = Punct("}")
    THEN [value |-> JsonDict(keys, vals), rest |-> Tail(toks)]
    ELSE IF Head(toks) = Punct(",") THEN ParsePairs(Tail(toks), keys, vals)
    ELSE LET val == ParseValue(Tail(Tail(toks)))
         IN  ParsePairs(val.rest, Append(keys, Head(toks).text),
                        Append(vals, val.value))

\* The records extract_topology puts in a snapshot: lines 133-138 and 148.
TrunkJson(uid, initial_masked) ==
    JsonDict(<< "uid", "type", "label", "initial_masked" >>,
             << JsonStr(uid), JsonStr("PIPE"), JsonStr(uid),
                JsonBool(initial_masked) >>)
NodeJson(uid) ==
    JsonDict(<< "uid", "type", "label" >>,
             << JsonStr(uid), JsonStr("?"), JsonStr(uid) >>)

StrList(uids) == JsonList([i \in DOMAIN uids |-> JsonStr(uids[i])])
NodeList(uids) == JsonList([i \in DOMAIN uids |-> NodeJson(uids[i])])

\* The "trunks" lists of the snapshots saved.
TrunkLists ==
    {JsonList(l) :
        l \in UNION {[1..n -> {TrunkJson(u, b) : u \in {"P1", "P7"}, b \in BOOLEAN}] :
                        n \in 0..MaxTrunks}}

\* The "branches" maps of the snapshots saved: branch points in either
\* order, candidates in either order.
BranchMaps ==
    {JsonDict(<< >>, << >>),
     JsonDict(<< "J1" >>, << NodeList(<< "P2", "P3" >>) >>),
     JsonDict(<< "J1" >>, << NodeList(<< "P3", "P2" >>) >>),
     JsonDict(<< "J1", "J2" >>,
              << NodeList(<< "P2", "P3" >>), NodeList(<< "P4", "P5", "P6" >>) >>),
     JsonDict(<< "J2", "J1" >>,
              << NodeList(<< "P4", "P5", "P6" >>), NodeList(<< "P2", "P3" >>) >>)}

\* The "routes" of the snapshots saved, as well -> list of uid lists.
RouteMaps ==
    {<< >>,
     << [well |-> "W1", paths |-> << >>] >>,
     << [well |-> "W1", paths |-> << << "W1", "P1", "SEP1" >> >>] >>,
     << [well |-> "W1", paths |-> << << "W1", "P1", "J1", "P2", "SEP1" >>,
                                   << "W1", "P1", "J1", "P3", "SEP2" >> >>],
        [well |-> "W2", paths |-> << >>] >>}

\* data of extract_topology: lines 144-165.
Snapshot(trunk_list, branch_map, rs) ==
    JsonDict(<< "model", "trunks", "branches", "routes", "routes_named" >>,
             << JsonStr("PROD"), trunk_list, branch_map,
                JsonDict([i \in DOMAIN rs |-> rs[i].well],
                         [i \in DOMAIN rs |->
                             JsonList([j \in DOMAIN rs[i].paths |->
                                          StrList(rs[i].paths[j])])]),
                JsonDict([i \in DOMAIN rs |-> rs[i].well],
                         [i \in DOMAIN rs |->
                             JsonList([j \in DOMAIN rs[i].paths |->
                                          NodeList(rs[i].paths[j])])]) >>)

InitJson ==
    /\ op = "json"
    /\ EngineIdle /\ GraphIdle
    /\ data \in {Snapshot(t, b, r) :
                    t \in TrunkLists, b \in BranchMaps, r \in RouteMaps}
    /\ file = << >> /\ loaded = JsonNone

\* save_topology_json(data, path): lines 172-175.
CallSave ==
    /\ op = "json" /\ pc = "start"
    /\ file' = Dump(data)
    /\ pc' = "saved"
    /\ UNCHANGED << op, enginev, edges, uid_type, walkv, scanv, first, data,
                    loaded >>

\* load_topology_json(path): lines 178-180.
CallLoad ==
    /\ op = "json" /\ pc = "saved"
    /\ loaded' = ParseValue(file).value
    /\ pc' = "done"
    /\ UNCHANGED << op, enginev, edges, uid_type, walkv, scanv, first, data,
                    file >>

NextJson == CallSave \/ CallLoad

\* A snapshot saved, then loaded.
SpecJson == InitJson /\ [][NextJson]_vars

\* C22: loading the file save_topology_json wrote gives a snapshot equal to
\* the one saved: same trunks with their initial_masked, same candidate
\* lists in the same order, same routes; the whole text is read.
C22_RoundTrip ==
    (op = "json" /\ pc = "done")
        => /\ loaded = data
           /\ ParseValue(file).rest = << >>

\* C22 witness: a loaded snapshot with a masked and an unmasked trunk, two
\* branch points and two routes.
C22_Witness ==
    /\ op = "json" /\ pc = "done"
    /\ loaded.vals[2] = JsonList(<< TrunkJson("P1", TRUE), TrunkJson("P7", FALSE) >>)
    /\ loaded.vals[3].keys = << "J2", "J1" >>
    /\ loaded.vals[4].keys = << "W1", "W2" >>
    /\ Len(loaded.vals[4].vals[1].items) = 2

\* ------------------------------------------------ greedy trial mask state
\* A trial of optimize_lineup_greedy is about to be solved: its apply_lineup
\* has returned.
TrialAtSolve == op = "greedy" /\ pc = "solve" /\ phase = "trial"

\* The candidate under trial.
TrialCandidate == topology.branches[topology.bps[bp_idx]][pipe_idx].uid

\* The candidates that the trial at hand leaves open: the fixed choices of
\* the earlier branch points and the candidate under trial.
TrialOpen ==
    {chosen_branches[topology.bps[j]] : j \in 1..(bp_idx - 1)}
    \cup {TrialCandidate}

TypedTrialMaskState ==
    TrialAtSolve
        => /\ \A j \in 1..(bp_idx - 1) :
                 /\ topology.bps[j] \in DOMAIN chosen_branches
                 /\ trial_choice[topology.bps[j]] = chosen_branches[topology.bps[j]]
           /\ \A j \in DOMAIN topology.bps :
                 \A x \in Range(topology.branches[topology.bps[j]]) :
                    IF x.type \in TWO_PORT_TYPES
                    THEN masked[x.uid] = (x.uid \notin TrialOpen)
                    ELSE masked[x.uid] = masked0[x.uid]

InitShared ==
    /\ op \in {"brute", "greedy"}
    /\ topology \in {TopoScenario, TopoTwoThree, TopoUntyped}
    /\ \/ force_unmask_trunks = TRUE /\ locked_trunks = {}
       \/ force_unmask_trunks = FALSE /\ locked_trunks = {}
       \/ force_unmask_trunks = TRUE /\ locked_trunks = {"P1"}
    /\ masked \in UniformMasks(topology)
    /\ lineup = EmptyLineup
    /\ w \in {[c \in CandUids(topology) |-> k] : k \in {0, MaxW}}
    /\ synergy = FALSE /\ nsep = MaxSep
    /\ results = [k \in 1..nsep |-> 0]
    /\ Locals /\ GraphIdle /\ JsonIdle

\* The optimizer is between two of its solver calls.
Running == pc \in {"apply", "solve", "count", "read"}

\* The other driver's do_cmd reaches the session: server.py do_cmd.
OtherDriver ==
    /\ Running /\ ~interfered
    /\ \E u \in Equip(topology), v \in {"MASK", "UNMASK"} :
          masked' = Execute(masked, Cmd(v, u))
    /\ interfered' = TRUE
    /\ UNCHANGED << graphv, inputs, oracle, results, pc, applyv, evalv, optv, ret,
                    trials, solved_for, err_at, empties, masked0, entry_mask,
                    solved_mask >>

NextShared ==
    \/ op = "brute" /\ NextBruteforce
    \/ op = "greedy" /\ NextGreedy
    \/ OtherDriver

SpecShared == InitShared /\ [][NextShared]_vars

\* The mask state the claim prescribes for a lineup: a locked trunk is
\* masked, any other trunk is unmasked under FORCE_OPEN and has its initial
\* state under RESTORE_INITIAL, and a candidate is unmasked exactly when the
\* lineup chooses it.
PrescribedTrunk(trunk) ==
    IF trunk.uid \in locked_trunks THEN TRUE
    ELSE IF force_unmask_trunks THEN FALSE
    ELSE trunk.initial_masked

PrescribedCand(bp, node) == ~(bp \in DOMAIN lineup /\ lineup[bp] = node.uid)

CatalogW2First ==
    << [uid |-> "W2", type |-> "WELL"], [uid |-> "W1", type |-> "WELL"],
       [uid |-> "J1", type |-> "JOINT"], [uid |-> "SEP1", type |-> "SEP"],
       [uid |-> "SEP2", type |-> "SEP"] >>

CatalogOrders == {Catalog, CatalogW2First}

\* find_trunks_and_branches has returned; the caller keeps the result and
\* calls it again on the same edges with the wells in another order.
ClassifyAgain ==
    /\ op = "classify" /\ pc = "done" /\ ~first.returned
    /\ first' = [returned |-> TRUE, trunks |-> trunks, branches |-> branches]
    /\ \E cat \in CatalogOrders \ {uid_type} : uid_type' = cat
    /\ pc' = "start"
    /\ UNCHANGED << jsonv, scanv, op, enginev, edges, walkv >>

NextReorder == NextClassify \/ ClassifyAgain

\* Two calls of find_trunks_and_branches on the same edges, the wells in
\* two orders.
SpecReorder == InitClassify /\ [][NextReorder]_vars

\* C25: on the same edges, find_trunks_and_branches with the wells in the
\* other order returns the same trunk set and the same branch points, each
\* with the same candidate list.
C25_PartitionIgnoresWellOrder ==
    (op = "classify" /\ pc = "done" /\ first.returned)
        => /\ trunks = first.trunks
           /\ DOMAIN branches = DOMAIN first.branches
           /\ \A n \in DOMAIN branches : branches[n] = first.branches[n]

\* C25 witness: both wells converge on the segment from J1 to SEP1, and
\* both orders have been classified.
C25_Witness ==
    /\ op = "classify" /\ pc = "done" /\ first.returned
    /\ Wells(uid_type) = << "W2", "W1" >>
    /\ edges = << Edge(1, "W1", "J1"), Edge(2, "W2", "J1"), Edge(3, "J1", "SEP1") >>
    /\ trunks = {"P1", "P2", "P3"}

\* ---------------------------------------------------------- termination
\* The edge dicts in which no edge leaves the separator or enters the
\* second well, and the second well leads to the joint only: self-loops,
\* cycles through W1 and J1, parallel edges and two wells converging on
\* one segment are all among them.
TraversalDicts ==
    {d \in EdgeDicts :
        \A i \in DOMAIN d :
           /\ d[i].enda # "SEP1" /\ d[i].endb # "W2"
           /\ d[i].enda = "W2" => d[i].endb = "J1"}

\* Either traversal on any of these graphs, run to its return.
InitTraversals ==
    op \in {"classify", "paths"} /\ InitGraph /\ edges \in TraversalDicts

NextTraversals == NextClassify \/ NextPaths

SpecTraversals == InitTraversals /\ [][NextTraversals]_vars

\* Every node a traversal can meet.
AllNodes == {r.uid : r \in Range(Catalog)}

\* The classifier's frames that have entered their node hold pairwise
\* distinct nodes, all of them in the visited set.
EnteredOnce ==
    op = "classify"
        => \A i \in DOMAIN stack :
              stack[i].k > 0
                 => /\ stack[i].node \in visited
                    /\ \A j \in DOMAIN stack :
                          (j # i /\ stack[j].k > 0)
                             => stack[j].node # stack[i].node

\* The enumerator never descends into a node of the visited set of the
\* descending call, and the set handed down grows by that call's node.
NoDescentIntoVisited ==
    op = "paths"
        => \A i \in 2..Len(stack) :
              /\ stack[i].node \notin stack[i - 1].visited
              /\ stack[i].visited = stack[i - 1].visited \cup {stack[i - 1].node}

\* The classifier's dfs, entered on a node of the visited set, returns at
\* once and adds nothing.
VisitedNodeSkipped ==
    (op = "classify" /\ pc = "wells" /\ stack # << >>
     /\ stack[Len(stack)].k = 0 /\ stack[Len(stack)].node \in visited)
        => /\ stack' = SubSeq(stack, 1, Len(stack) - 1)
           /\ trunks' = trunks /\ branches' = branches /\ visited' = visited

\* No recursion is deeper than the number of nodes plus one.
DepthBound == Cardinality(AllNodes) + 1

\* The work left to a traversal, a natural number: the steps to its loop
\* and to its return, the wells not yet started, and the stack read as a
\* numeral whose digit at depth i is the number of out-edges frame i may
\* still handle, at most MaxEdges, plus one for its return.
WorkBase == MaxEdges + 2

RECURSIVE WorkOfFrames(_)
WorkOfFrames(i) ==
    IF i = 0 THEN 0
    ELSE WorkOfFrames(i - 1)
         + (IF i > DepthBound THEN 0
            ELSE (MaxEdges - stack[i].k + 1) * WorkBase ^ (DepthBound - i))

WorkOfStack == WorkOfFrames(Len(stack))

\* More than any stack is worth.
WorkOfWell == WorkBase ^ DepthBound

WorkLeft ==
    (CASE pc = "start" -> 2 [] pc = "wells" -> 1 [] OTHER -> 0)
       * (Len(Wells(uid_type)) + 1) * WorkOfWell
    + (Len(Wells(uid_type)) - widx) * WorkOfWell
    + WorkOfStack

\* C26: on every graph, cycles, self-loops and converging segments
\* included, both traversals return: until the return a step is always
\* possible and every step strictly decreases a natural number.  The
\* classifier enters each node at most once (one visited set for all
\* wells) and the enumerator never descends into a node of the current
\* call's visited set, so neither recursion is deeper than the number of
\* nodes plus one.
C26_TraversalsTerminate ==
    /\ [](/\ EnteredOnce /\ NoDescentIntoVisited
          /\ Len(stack) <= DepthBound
          /\ WorkLeft >= 0
          /\ (pc # "done" => ENABLED NextTraversals))
    /\ [][VisitedNodeSkipped /\ WorkLeft' < WorkLeft]_vars

\* C26 witness: the enumerator has returned on a graph with a cycle between
\* W1 and J1 and a self-loop at J1.
C26_Witness ==
    /\ op = "paths" /\ pc = "done"
    /\ edges = << Edge(1, "W1", "J1"), Edge(2, "J1", "W1"), Edge(3, "J1", "J1") >>
    /\ routes = [n \in {"W1", "W2"} |-> << >>]

\* ------------------------------------------ the solver after brute force
\* C27 as claimed, for the candidates apply_lineup commands: when
\* optimize_lineup_bruteforce has returned a lineup, every candidate of
\* type PIPE, INLCHK or INLGEN is unmasked exactly when the returned lineup
\* chooses it.
C27_BestLineupLeftApplied ==
    (op = "brute" /\ pc = "done" /\ ret.returned /\ ret.lineup # NoLineup)
        => \A b \in Range(topology.bps) :
              \A x \in Range(topology.branches[b]) :
                 x.type \in TWO_PORT_TYPES
                    => masked[x.uid] = ~(b \in DOMAIN ret.lineup
                                         /\ ret.lineup[b] = x.uid)

\* ------------------------------------------------- an empty branch map
\* C28 as claimed: on a snapshot without branch points
\* optimize_lineup_greedy never raises, and when it has returned it has
\* applied the trunk policy once, solved once and returned the empty
\* lineup with the score read after that solve.
C28_GreedyCompletesOnEmptyBranchMap ==
    (op = "greedy" /\ topology.bps = << >>)
        => /\ pc # "raised"
           /\ pc = "done"
                 => /\ ret.returned /\ ret.lineup = EmptyLineup
                    /\ Len(solved_for) = 1
                    /\ cmds = TrunkCmds(topology, force_unmask_trunks, locked_trunks)
                    /\ ret.score = total_oil

\* ------------------------------------------------------- simple routes
\* The nodes of a route: its odd positions.
RouteNodes(route) == [i \in 1..((Len(route) + 1) \div 2) |-> route[2 * i - 1]]

\* C29 as claimed: no node occurs more than once in a route returned by
\* find_paths_from_well_to_sep.
C29_RoutesAreSimple ==
    (op = "paths" /\ pc = "done")
        => \A well \in DOMAIN routes :
              \A r \in Range(routes[well]) :
                 \A i, j \in DOMAIN RouteNodes(r) :
                    i # j => RouteNodes(r)[i] # RouteNodes(r)[j]

\* ------------------------------------------- the frame of apply_lineup
\* C30: at every point of one apply_lineup call, every command issued so
\* far names a trunk or a candidate of the snapshot, no equipment has been
\* named twice, no trunk command follows a candidate command, and every
\* equipment without a command has the mask state it had when the call
\* began.
C30_OnlySnapshotEquipmentCommanded ==
    op = "apply"
        => /\ \A i \in DOMAIN cmds : cmds[i].uid \in Equip(topology)
           /\ \A i, j \in DOMAIN cmds : i # j => cmds[i].uid # cmds[j].uid
           /\ \A i, j \in DOMAIN cmds :
                 (i < j /\ cmds[i].uid \in CandUids(topology))
                    => cmds[j].uid \notin TrunkUids(topology)
           /\ \A u \in DOMAIN masked :
                 CmdsFor(u) = << >> => masked[u] = entry_mask[u]

\* C30 witness: a call has returned whose lineup names a UID that is no
\* candidate of J1; the two-port trunks P1 and P8 and the two-port
\* candidates P2 and P4 got one command each, in that order, and P7 and P3
\* got none.
C30_Witness ==
    /\ op = "apply" /\ pc = "done" /\ topology = TopoMixed
    /\ lineup = [b \in {"J1"} |-> Foreign]
    /\ [i \in DOMAIN cmds |-> cmds[i].uid] = << "P1", "P8", "P2", "P4" >>
    /\ ~entry_mask["P3"] /\ entry_mask["P7"]

====
